---- MODULE Spec2Model ----
(***************************************************************************)
(* Leveled compaction core of the badger LSM tree (level_handler.go and    *)
(* levels.go): per-level table lists, the compaction planner and executor, *)
(* manifest coordination, L0 admission with its stall, and point reads.    *)
(*                                                                         *)
(* Keys.  A stored key is a user key followed by a timestamp; keys sort by *)
(* user key ascending, then timestamp descending.  A key is modelled as    *)
(* the integer  uk * KeyStride + (TsInf - ts) ; integer order is then key  *)
(* order.  TsInf stands for math.MaxUint64.                                *)
(***************************************************************************)
EXTENDS Integers, Sequences, FiniteSets, TLC

\* ---------------------------------------------------------------- bounds
NumKeys == 2
MaxTs == 3
MaxFileID == 8
NumReaders == 1
MaxAppendFailures == 1
MaxPairs == 2

\* ------------------------------------------------------- program options
MaxLevels == 3
NumLevelZeroTables == 1
NumLevelZeroTablesStall == 2
LevelOneSize == 2
LevelSizeMultiplier == 2
MaxTableSize == 2
NumCompactors == 2

UserKeys == 1..NumKeys
TsInf == MaxTs + 1
KeyStride == TsInf + 1
NoKey == 0
NoTable == 0

\* ------------------------------------------------------------------ keys
KeyWithTs(uk, ts) == uk * KeyStride + (TsInf - ts)
ParseKey(key) == key \div KeyStride
ParseTs(key) == TsInf - (key % KeyStride)
CompareKeys(a, b) == IF a < b THEN -1 ELSE IF a > b THEN 1 ELSE 0
SameKey(a, b) == ParseKey(a) = ParseKey(b)

Rec(uk, ts, del) == [key |-> KeyWithTs(uk, ts), del |-> del]

\* The bytes of a stored key: those of the user key, then the eight bytes of
\* math.MaxUint64 - ts, big-endian.  User key uk is the one-byte string <<uk>>.
KeyName(uk) == <<uk>>
TsBytes(ts) == [i \in 1..8 |-> IF i < 8 THEN 255 ELSE 255 - ts]
KeyBytes(key) == KeyName(ParseKey(key)) \o TsBytes(ParseTs(key))

\* bytes.Compare
RECURSIVE BytesCompare(_, _)
BytesCompare(a, b) ==
  IF a = <<>> THEN (IF b = <<>> THEN 0 ELSE -1)
  ELSE IF b = <<>> THEN 1
  ELSE IF Head(a) < Head(b) THEN -1
  ELSE IF Head(a) > Head(b) THEN 1
  ELSE BytesCompare(Tail(a), Tail(b))

SetMin(S) == CHOOSE x \in S : \A y \in S : x <= y
SetMax(S) == CHOOSE x \in S : \A y \in S : x >= y

RECURSIVE SumOver(_, _)
SumOver(f, S) == IF S = {} THEN 0
                 ELSE LET x == CHOOSE y \in S : TRUE
                      IN f[x] + SumOver(f, S \ {x})

Range(s) == {s[i] : i \in 1..Len(s)}

\* The element of a one-element set.  { e(x) : x \in {v} } binds x to the
\* value of v, which is then computed once however often e uses it.
The(S) == CHOOSE x \in S : TRUE

RECURSIVE SeqSum(_, _)
SeqSum(f, s) == IF s = <<>> THEN 0 ELSE f[Head(s)] + SeqSum(f, Tail(s))

\* The records of a set, as the sequence a forward iterator yields: the
\* i-th is the one with i - 1 smaller keys.
SortRecs(S) ==
  [i \in 1..Cardinality(S) |->
     CHOOSE r \in S : Cardinality({q \in S : q.key < r.key}) = i - 1]

\* ----------------------------------------------------------------- state
VARIABLES
  tbl,         \* file id -> the records of the table file ({} = no such table)
  ref,         \* file id -> reference count (0 = file deleted or never built)
  nextFileID,  \* levelsController.nextFileID
  tables,      \* level -> levelHandler.tables (sequence of file ids)
  totalSize,   \* level -> levelHandler.totalSize
  cranges,     \* level -> ranges reserved in compactStatus
  delSize,     \* level -> compactStatus delta size
  manifest,    \* file id -> level recorded by the manifest (-1 = none)
  assigned,    \* history: the <<id, level>> pairs manifest changes have assigned
  minReadTs,   \* the oracle's read mark
  commitTs,    \* timestamp of the last flushed memtable
  finished,    \* history: <<level, first top table>> of the compactions done
  wk,          \* compaction worker -> its position and compactDef
  ad,          \* the flusher inside addLevel0Table
  rd,          \* reader -> its position inside levelsController.get
  crashed,     \* "no", or the assertion that killed the process
  compactionFilter,  \* what opt.CompactionFilterFactory gives a merge
  info,        \* the caller of getTableInfo: its position in the loop over levels
  closer       \* the y.Closer of the compaction workers

vars == <<tbl, ref, nextFileID, tables, totalSize, cranges, delSize, manifest,
          assigned, minReadTs, commitTs, finished, wk, ad, rd, crashed,
          compactionFilter, info, closer>>

Levels == 0..(MaxLevels - 1)
FileIDs == 1..MaxFileID
Workers == 1..NumCompactors
Readers == 1..NumReaders

\* ---------------------------------------------------------------- tables
Keys(id) == {r.key : r \in tbl[id]}
Smallest(id) == SetMin(Keys(id))
Biggest(id) == SetMax(Keys(id))
Size(id) == Cardinality(tbl[id])

\* maxTotalSize of a level, as newLevelsController sets it.
RECURSIVE maxTotalSize(_)
maxTotalSize(l) == IF l = 0 THEN 0
                   ELSE IF l = 1 THEN LevelOneSize
                   ELSE maxTotalSize(l - 1) * LevelSizeMultiplier

\* sort.Search(n, f): the binary search itself, 0-based, f given as the set
\* of indices where it is true.
RECURSIVE SearchLoop(_, _, _)
SearchLoop(i, j, T) == IF i < j
                       THEN LET h == (i + j) \div 2
                            IN IF h \notin T THEN SearchLoop(h + 1, j, T)
                               ELSE SearchLoop(i, h, T)
                       ELSE i
Search(n, T) == SearchLoop(0, n, T)

\* Fault model for C6: a range search that finds no table overlapping.
getTablesInRangeNone(tbls, start, end) == [left |-> 0, right |-> 0]

\* getTablesInRange: the half-open index range [left, right), 0-based.
getTablesInRange(tbls, start, end) ==
  [left  |-> Search(Len(tbls), {i \in 0..(Len(tbls) - 1) :
                                   CompareKeys(start, Biggest(tbls[i + 1])) <= 0}),
   right |-> Search(Len(tbls), {i \in 0..(Len(tbls) - 1) :
                                   CompareKeys(end, Smallest(tbls[i + 1])) < 0})]

overlappingTables(l, kr) == getTablesInRange(tables[l], kr.left, kr.right)

\* the tables tbls[left:right] of a Go slice expression
Slice(tbls, left, right) == [i \in 1..(right - left) |-> tbls[left + i]]

assertTablesOrder(tbls) ==
  \A i \in 1..(Len(tbls) - 1) :
     /\ CompareKeys(Smallest(tbls[i]), Biggest(tbls[i])) <= 0
     /\ CompareKeys(Smallest(tbls[i]), Smallest(tbls[i + 1])) < 0
     /\ CompareKeys(Biggest(tbls[i]), Biggest(tbls[i + 1])) < 0
     /\ CompareKeys(Biggest(tbls[i]), Smallest(tbls[i + 1])) < 0

\* ------------------------------------------------------------- keyRange
infRange == [left |-> 0, right |-> 0, inf |-> TRUE]
KeyRange(l, r) == [left |-> l, right |-> r, inf |-> FALSE]

rangeOverlapsWith(r, dst) ==
  IF r.inf \/ dst.inf THEN TRUE
  ELSE IF CompareKeys(r.left, dst.right) > 0 THEN FALSE
  ELSE IF CompareKeys(r.right, dst.left) < 0 THEN FALSE
  ELSE TRUE

\* getKeyRange: the union of the tables' ranges, widened to all versions of
\* the boundary user keys.
getKeyRange(tbls) ==
  KeyRange(KeyWithTs(ParseKey(SetMin({Smallest(tbls[i]) : i \in 1..Len(tbls)})), TsInf),
           KeyWithTs(ParseKey(SetMax({Biggest(tbls[i]) : i \in 1..Len(tbls)})), 0))

\* --------------------------------------------------------- compactStatus
overlapsWith(l, kr) == \E i \in 1..Len(cranges[l]) : rangeOverlapsWith(cranges[l][i], kr)

RECURSIVE RemoveFirst(_, _)
RemoveFirst(s, x) == IF s = <<>> THEN <<>>
                     ELSE IF Head(s) = x THEN Tail(s)
                     ELSE <<Head(s)>> \o RemoveFirst(Tail(s), x)

\* Fault model for C7: a compareAndAdd that admits every compaction.
compareAndAddAlways(cd) == TRUE

\* compareAndAdd's test
compareAndAddOk(cd) ==
  /\ ~overlapsWith(cd.level, cd.thisRange)
  /\ ~overlapsWith(cd.level + 1, cd.nextRange)

\* compareAndAdd's update
cstatusAdd(cd) ==
  /\ cranges' = [cranges EXCEPT ![cd.level] = Append(@, cd.thisRange),
                                ![cd.level + 1] = Append(@, cd.nextRange)]
  /\ delSize' = [delSize EXCEPT ![cd.level + 1] = @ + cd.thisSize]

\* Fault model for C23: delete that leaves the next level's entry.
cstatusDeleteThisOnly(cd) ==
  /\ cranges' = [cranges EXCEPT ![cd.level] = RemoveFirst(@, cd.thisRange)]
  /\ delSize' = [delSize EXCEPT ![cd.level + 1] = @ - cd.thisSize]

\* compactStatus.delete
cstatusDelete(cd) ==
  /\ cranges' = [cranges EXCEPT ![cd.level] = RemoveFirst(@, cd.thisRange),
                                ![cd.level + 1] = RemoveFirst(@, cd.nextRange)]
  /\ delSize' = [delSize EXCEPT ![cd.level + 1] = @ - cd.thisSize]

\* ------------------------------------------------------ compaction merge
\* searchGuard: the first guard the key's bytes compare below, or nil (<<>>).
searchGuard(key, guards) ==
  LET idx == Search(Len(guards), {i \in 0..(Len(guards) - 1) :
                                     BytesCompare(KeyBytes(key), guards[i + 1]) < 0})
  IN IF idx < Len(guards) THEN guards[idx + 1] ELSE <<>>

shouldFinishFile(key, guard, builder, maxSize) ==
  \/ Len(guard) > 0 /\ BytesCompare(KeyBytes(key), guard) > 0
  \/ Len(builder) >= maxSize

\* Fault model for C27: the filter is asked about every record that is not
\* a tombstone, whatever its version.
emitRecordFilterAll(r, builder, P) ==
  IF r.del
  THEN IF ParseTs(r.key) <= P.minReadTs /\ ~P.hasOverlap THEN builder ELSE Append(builder, r)
  ELSE IF P.hasFilter
       THEN CASE P.decision[ParseKey(r.key)] = "tomb" ->
                   IF P.hasOverlap THEN Append(builder, [key |-> r.key, del |-> TRUE])
                   ELSE builder
              [] P.decision[ParseKey(r.key)] = "drop" -> builder
              [] OTHER -> Append(builder, r)
       ELSE Append(builder, r)

\* What the inner loop adds to the builder for a record it does not skip.
emitRecord(r, builder, P) ==
  IF ParseTs(r.key) <= P.minReadTs
  THEN IF r.del
       THEN IF ~P.hasOverlap THEN builder ELSE Append(builder, r)
       ELSE IF P.hasFilter
            THEN CASE P.decision[ParseKey(r.key)] = "tomb" ->
                        IF P.hasOverlap THEN Append(builder, [key |-> r.key, del |-> TRUE])
                        ELSE builder
                   [] P.decision[ParseKey(r.key)] = "drop" -> builder
                   [] OTHER -> Append(builder, r)
            ELSE Append(builder, r)
  ELSE Append(builder, r)

\* Fault model for C18: versions at or below the read mark never set skipKey.
setSkipKeyNever(r, P) == NoKey

\* skipKey after a record that was not skipped: its user key when its
\* version is at or below the read mark.
setSkipKey(r, P) == IF ParseTs(r.key) <= P.minReadTs THEN ParseKey(r.key) ELSE NoKey

\* The inner loop of compactBuildTables over one output file: it is the
\* merged input, i the iterator's position.
RECURSIVE InnerLoop(_, _, _, _, _, _, _)
InnerLoop(it, i, lastKey, skipKey, currGuard, builder, P) ==
  IF i > Len(it)
  THEN [i |-> i, lastKey |-> lastKey, skipKey |-> skipKey, builder |-> builder]
  ELSE LET r == it[i]
           uk == ParseKey(r.key)
       IN IF skipKey # NoKey /\ skipKey = uk
          THEN InnerLoop(it, i + 1, lastKey, skipKey, currGuard, builder, P)
          ELSE The(
                 {IF uk # lastKey /\ shouldFinishFile(r.key, guard, builder, P.maxTableSize)
                  THEN [i |-> i, lastKey |-> lastKey, skipKey |-> NoKey, builder |-> builder]
                  ELSE InnerLoop(it, i + 1, uk, setSkipKey(r, P), guard, next, P) :
                    guard \in {IF currGuard = <<>> /\ Len(P.guards) > 0
                               THEN searchGuard(r.key, P.guards) ELSE currGuard},
                    next \in {emitRecord(r, builder, P)}})

\* The outer loop: one file id per output file, empty files dropped.
RECURSIVE OuterLoop(_, _, _, _, _, _, _)
OuterLoop(it, i, lastKey, skipKey, fid, P, out) ==
  IF i > Len(it) THEN [out |-> out, next |-> fid]
  ELSE The({OuterLoop(it, res.i, res.lastKey, res.skipKey, fid + 1, P,
                      IF res.builder = <<>> THEN out
                      ELSE Append(out, [id |-> fid, recs |-> Range(res.builder)])) :
               res \in {InnerLoop(it, i, lastKey, skipKey, <<>>, <<>>, P)}})

\* opt.CompactionFilterFactory == nil
NoFilter == [on |-> FALSE, guards |-> <<>>, decision |-> [k \in UserKeys |-> "keep"]]

\* What the merge loop works with: the read mark, hasOverlap, the filter
\* and its guards, and opt.MaxTableSize.
MergeParams(m, overlap, filter) ==
  [minReadTs |-> m, hasOverlap |-> overlap, hasFilter |-> filter.on,
   decision |-> filter.decision, guards |-> filter.guards, maxTableSize |-> MaxTableSize]

\* The merge iterator over top and bot.
MergeInput(top, bot) == SortRecs(UNION {tbl[id] : id \in Range(top) \cup Range(bot)})

\* The merge path of compactBuildTables.
compactBuildTables(top, bot, P, fid) == OuterLoop(MergeInput(top, bot), 1, NoKey, NoKey, fid, P, <<>>)

hasOverlapTable(cd) ==
  LET kr == getKeyRange(cd.top)
  IN \E i \in (cd.level + 2)..(MaxLevels - 1) :
        LET lr == overlappingTables(i, kr) IN lr.right - lr.left > 0


\* ---------------------------------------------------------- small helpers
Count(s, id) == Cardinality({i \in 1..Len(s) : s[i] = id})
Injective(s) == \A i, j \in 1..Len(s) : s[i] = s[j] => i = j
Reverse(s) == [i \in 1..Len(s) |-> s[Len(s) + 1 - i]]
RECURSIVE SelectNotIn(_, _)
SelectNotIn(s, D) == IF s = <<>> THEN <<>>
                     ELSE IF Head(s) \in D THEN SelectNotIn(Tail(s), D)
                     ELSE <<Head(s)>> \o SelectNotIn(Tail(s), D)

\* reference counts after IncrRef on every table of inc and DecrRef on
\* every table of dec
RefMove(inc, dec) == [id \in FileIDs |-> ref[id] + Count(inc, id) - Count(dec, id)]

FileVars == <<tbl, ref, nextFileID>>
LevelVars == <<tables, totalSize>>
ManifestVars == <<manifest, assigned>>
StatusVars == <<cranges, delSize>>
OracleVars == <<minReadTs, commitTs>>

\* lift is history: what the merge did with the tombstones among its inputs;
\* refDelta is history: what the steps of a move-down have added so far to
\* the reference count of the table they move; err is history: the last
\* doCompact of the worker returned an error.
IdleW == [pc |-> "idle", prios |-> <<>>, level |-> 0, top |-> <<>>, bot |-> <<>>,
          thisRange |-> infRange, nextRange |-> infRange, thisSize |-> 0,
          cands |-> <<>>, hasOverlap |-> FALSE, newTables |-> <<>>, moveDown |-> FALSE,
          lift |-> {}, refDelta |-> 0, err |-> FALSE, locking |-> FALSE]

\* A level's read lock is held across fillTables' candidate loop.
ReadLocked(l) == \E w \in Workers : wk[w].pc = "caa" /\ l \in {wk[w].level, wk[w].level + 1}

\* ---------------------------------------------------------------- planner
\* Fault model for C26: level 0 counts as compactable only at the stall bound.
isL0CompactableAtStall == Len(tables[0]) >= NumLevelZeroTablesStall

isL0Compactable == Len(tables[0]) >= NumLevelZeroTables
\* Fault model for C10: a level counts as compactable one size unit late.
isCompactableLate(l, deltaSize) == totalSize[l] > maxTotalSize(l) + deltaSize + 1

isCompactable(l, deltaSize) == totalSize[l] >= maxTotalSize(l) + deltaSize

PrioLevels ==
  (IF ~overlapsWith(0, infRange) /\ isL0Compactable THEN {0} ELSE {})
  \cup {l \in 1..(MaxLevels - 1) : isCompactable(l, delSize[l])}
ScoreNum(l) == IF l = 0 THEN Len(tables[0]) ELSE totalSize[l] - delSize[l]
ScoreDen(l) == IF l = 0 THEN NumLevelZeroTables ELSE maxTotalSize(l)
ScoreGreater(a, b) == ScoreNum(a) * ScoreDen(b) > ScoreNum(b) * ScoreDen(a)

\* pickCompactLevels: the priorities in an order sort.Slice may leave them.
pickCompactLevels ==
  {s \in [1..Cardinality(PrioLevels) -> PrioLevels] :
      Injective(s) /\ \A i, j \in 1..Len(s) : i < j => ~ScoreGreater(s[j], s[i])}

\* fillTables' candidates: this level's tables, biggest first.
CandOrders(l) ==
  {s \in [1..Len(tables[l]) -> Range(tables[l])] :
      Injective(s) /\ \A i, j \in 1..Len(s) : i < j => ~(Size(s[j]) > Size(s[i]))}

botOf(l, kr) == LET lr == overlappingTables(l + 1, kr)
                IN Slice(tables[l + 1], lr.left, lr.right)

\* Fault model for C25: the range of a candidate without the widening.
thisRangeOfTable(t) == KeyRange(Smallest(t), Biggest(t))

\* fillTables: all the versions of the candidate's smallest and biggest key.
thisRangeOf(t) == KeyRange(KeyWithTs(ParseKey(Smallest(t)), TsInf),
                           KeyWithTs(ParseKey(Biggest(t)), 0))

\* the compactDef fillTables builds for candidate t
CandDef(l, t) ==
  The({[level |-> l, top |-> <<t>>, bot |-> bot, thisRange |-> thisRangeOf(t),
        nextRange |-> IF bot = <<>> THEN thisRangeOf(t) ELSE getKeyRange(bot),
        thisSize |-> Size(t)] :
         bot \in {botOf(l, thisRangeOf(t))}})

\* fillTables' overlapsWith tests ahead of compareAndAdd
PreCheck(cd) ==
  /\ ~overlapsWith(cd.level, cd.thisRange)
  /\ cd.bot = <<>> \/ ~overlapsWith(cd.level + 1, cd.nextRange)

\* the compactDef fillTablesL0 builds
L0Def ==
  The({[level |-> 0, top |-> tables[0], bot |-> bot, thisRange |-> infRange,
        nextRange |-> IF bot = <<>> THEN getKeyRange(tables[0]) ELSE getKeyRange(bot),
        thisSize |-> 0] :
         bot \in {botOf(0, getKeyRange(tables[0]))}})

WithDef(rec, cd) ==
  [rec EXCEPT !.level = cd.level, !.top = cd.top, !.bot = cd.bot,
              !.thisRange = cd.thisRange, !.nextRange = cd.nextRange,
              !.thisSize = cd.thisSize]

\* doCompact returned false: the worker goes on to the priorities left.
NextPrio(w, rest) ==
  wk' = [wk EXCEPT ![w] = IF rest = <<>> THEN IdleW
                          ELSE [IdleW EXCEPT !.pc = "doCompact", !.prios = rest]]

\* fillTables' loop from the candidates cands on: up to the first one that
\* passes the overlapsWith tests.
FillFrom(w, l, cands, rest) ==
  \E ok \in {{k \in 1..Len(cands) : \E cd \in {CandDef(l, cands[k])} : PreCheck(cd)}} :
     IF ok = {} THEN NextPrio(w, rest)
     ELSE \E k \in {SetMin(ok)} : \E cd \in {CandDef(l, cands[k])} :
             wk' = [wk EXCEPT ![w] = [WithDef(IdleW, cd) EXCEPT
                                         !.pc = "caa", !.prios = rest,
                                         !.cands = SubSeq(cands, k + 1, Len(cands))]]

\* doCompact(p) for p.level = l, up to the end of fillTables / fillTablesL0;
\* rest are the priorities the worker has left after p.
doCompact(w, l, rest) ==
  /\ IF ~(l + 1 < MaxLevels)
     THEN /\ crashed' = "doCompact"
          /\ UNCHANGED <<wk, cranges, delSize>>
     ELSE /\ UNCHANGED crashed
          /\ IF tables[l] = <<>>
             THEN NextPrio(w, rest) /\ UNCHANGED <<cranges, delSize>>
             ELSE IF l = 0
             THEN \E cd \in {L0Def} :
                    IF compareAndAddOk(cd)
                    THEN /\ cstatusAdd(cd)
                         /\ wk' = [wk EXCEPT ![w] = [WithDef(IdleW, cd) EXCEPT
                                                     !.pc = "build", !.prios = rest]]
                    ELSE NextPrio(w, rest) /\ UNCHANGED <<cranges, delSize>>
             ELSE /\ \E c \in CandOrders(l) : FillFrom(w, l, c, rest)
                  /\ UNCHANGED <<cranges, delSize>>
  /\ UNCHANGED <<compactionFilter, info, closer, FileVars, LevelVars, ManifestVars, OracleVars, finished, ad, rd>>

\* runWorker's tick: pickCompactLevels, then doCompact on the first priority.
Tick(w) ==
  /\ wk[w].pc = "idle"
  /\ crashed = "no"
  /\ \E s \in pickCompactLevels :
        /\ s # <<>>
        /\ doCompact(w, Head(s), Tail(s))

\* runWorker's loop over the priorities left after a doCompact returned false.
DoCompact(w) ==
  /\ wk[w].pc = "doCompact"
  /\ crashed = "no"
  /\ doCompact(w, Head(wk[w].prios), Tail(wk[w].prios))

\* fillTables' compareAndAdd for the candidate that passed the tests.
CompareAndAdd(w) ==
  /\ wk[w].pc = "caa"
  /\ crashed = "no"
  /\ IF compareAndAddOk(wk[w])
     THEN /\ cstatusAdd(wk[w])
          /\ wk' = [wk EXCEPT ![w] = [@ EXCEPT !.pc = "build", !.cands = <<>>]]
     ELSE /\ FillFrom(w, wk[w].level, wk[w].cands, wk[w].prios)
          /\ UNCHANGED <<cranges, delSize>>
  /\ UNCHANGED <<compactionFilter, info, closer, FileVars, LevelVars, ManifestVars, OracleVars, finished, ad, rd, crashed>>

\* --------------------------------------------------------------- executor
checkInvariants(cd) ==
  cd.level > 0 => assertTablesOrder(cd.top) /\ assertTablesOrder(cd.bot) /\ Len(cd.top) = 1

\* The read mark when compactBuildTables asks for it: it has moved up, never
\* past a running reader's timestamp nor past the last commit.
ReadMarks ==
  {m \in minReadTs..commitTs : \A r \in Readers : rd[r].pc # "idle" => m <= rd[r].ts}

\* the records the tables of a sequence hold
RecsOf(tbls) == UNION {tbl[id] : id \in Range(tbls)}

\* History of the tombstone branch of the merge: per tombstone among the
\* inputs, whether it is the newest input version of its key, whether the
\* output kept it, and whether a level below the next one holds its key.
Lifted(cd, kept) ==
  {[newest  |-> \A q \in RecsOf(cd.top \o cd.bot) : SameKey(q.key, r.key) => r.key <= q.key,
    dropped |-> r \notin kept,
    deeper  |-> \E l \in (cd.level + 2)..(MaxLevels - 1) :
                   \E q \in RecsOf(tables[l]) : SameKey(q.key, r.key)] :
      r \in {q \in RecsOf(cd.top \o cd.bot) : q.del}}

\* Fault model for C19: the fast path without its IncrRef.
moveDownFastPathNoIncrRef(top) == [newTables |-> <<top[1]>>, incr |-> <<>>]

\* The fast path of compactBuildTables: top[0] is the one new table, with
\* one more reference.
moveDownFastPath(top) == [newTables |-> <<top[1]>>, incr |-> <<top[1]>>]

\* compactBuildTables: hasOverlapTable, checkInvariants, then the move-down
\* fast path or the merge into new table files.  The iterators take their
\* references on top and bot and give them back at Close.
Build(w) ==
  /\ wk[w].pc = "build"
  /\ crashed = "no"
  /\ IF ~checkInvariants(wk[w])
     THEN crashed' = "checkInvariants" /\ UNCHANGED <<wk, FileVars, minReadTs>>
     ELSE /\ UNCHANGED crashed
          /\ IF wk[w].level > 0 /\ wk[w].bot = <<>>
             THEN /\ ref' = RefMove(moveDownFastPath(wk[w].top).incr, <<>>)
                  /\ wk' = [wk EXCEPT ![w] = [@ EXCEPT !.pc = "append",
                                                 !.hasOverlap = hasOverlapTable(wk[w]),
                                                 !.newTables = moveDownFastPath(wk[w].top).newTables,
                                                 !.moveDown = TRUE,
                                                 !.refDelta = ref'[wk[w].top[1]]
                                                                - ref[wk[w].top[1]],
                                                 !.lift = Lifted(wk[w], RecsOf(wk[w].top))]]
                  /\ UNCHANGED <<tbl, nextFileID, minReadTs>>
             ELSE \E m \in ReadMarks :
                  \E res \in {compactBuildTables(wk[w].top, wk[w].bot,
                                                  MergeParams(m, hasOverlapTable(wk[w]),
                                                              compactionFilter),
                                                  nextFileID)} :
                    LET ids == [i \in 1..Len(res.out) |-> res.out[i].id]
                    IN /\ res.next <= MaxFileID + 1
                       /\ minReadTs' = m
                       /\ nextFileID' = res.next
                       /\ tbl' = [id \in FileIDs |->
                                    IF \E i \in 1..Len(res.out) : res.out[i].id = id
                                    THEN (CHOOSE o \in Range(res.out) : o.id = id).recs
                                    ELSE tbl[id]]
                       /\ ref' = RefMove(ids, <<>>)
                       /\ wk' = [wk EXCEPT ![w] =
                                   [@ EXCEPT !.pc = "append",
                                             !.hasOverlap = hasOverlapTable(wk[w]),
                                             !.newTables = ids,
                                             !.lift = Lifted(wk[w],
                                                UNION {o.recs : o \in Range(res.out)})]]
  /\ UNCHANGED <<compactionFilter, info, closer, LevelVars, ManifestVars, StatusVars, commitTs, finished, ad, rd>>

\* Fault model for C5: a change set that records nothing.
buildChangeSetEmpty(cd, mf) == mf

\* buildChangeSet, as the level each file id is left with once the changes
\* are applied to the manifest mf (-1 = deleted).
buildChangeSet(cd, mf) ==
  [id \in FileIDs |->
     IF cd.moveDown
     THEN IF id \in Range(cd.newTables) THEN cd.level + 1 ELSE mf[id]
     ELSE IF id \in Range(cd.top) \cup Range(cd.bot) THEN -1
          ELSE IF id \in Range(cd.newTables) THEN cd.level + 1
          ELSE mf[id]]

\* the <<id, level>> pairs a manifest change from mf to cs assigns
Assigns(mf, cs) == {<<id, cs[id]>> : id \in {i \in FileIDs : cs[i] # mf[i] /\ cs[i] >= 0}}

\* manifest.addChanges(changeSet)
ManifestAppend(w) ==
  /\ wk[w].pc = "append"
  /\ crashed = "no"
  /\ manifest' = buildChangeSet(wk[w], manifest)
  /\ assigned' = assigned \cup Assigns(manifest, manifest')
  /\ wk' = [wk EXCEPT ![w].pc = "replace"]
  /\ UNCHANGED <<compactionFilter, info, closer, FileVars, LevelVars, StatusVars, OracleVars, finished, ad, rd, crashed>>

\* Fault model for C8: replaceTables without the IncrRef on the new tables.
replaceTablesNoIncrRef(tbls, newTables) ==
  IF Len(newTables) = 0 THEN [tables |-> tbls, toDecr |-> <<>>, added |-> <<>>]
  ELSE LET lr == getTablesInRange(tbls, Smallest(newTables[1]),
                                  Biggest(newTables[Len(newTables)]))
       IN [tables |-> SubSeq(tbls, 1, lr.left) \o newTables
                      \o SubSeq(tbls, lr.right + 1, Len(tbls)),
           toDecr |-> Slice(tbls, lr.left, lr.right),
           added  |-> <<>>]

\* levelHandler.replaceTables: the new table list and the tables it drops.
replaceTables(tbls, newTables) ==
  IF Len(newTables) = 0 THEN [tables |-> tbls, toDecr |-> <<>>, added |-> <<>>]
  ELSE LET lr == getTablesInRange(tbls, Smallest(newTables[1]),
                                  Biggest(newTables[Len(newTables)]))
       IN [tables |-> SubSeq(tbls, 1, lr.left) \o newTables
                      \o SubSeq(tbls, lr.right + 1, Len(tbls)),
           toDecr |-> Slice(tbls, lr.left, lr.right),
           added  |-> newTables]

\* nextLevel.replaceTables(newTables), with the decrRefs that follows it.
Replace(w) ==
  /\ wk[w].pc = "replace"
  /\ crashed = "no"
  /\ ~ReadLocked(wk[w].level + 1)
  /\ \E l \in {wk[w].level + 1} : \E rt \in {replaceTables(tables[l], wk[w].newTables)} :
        IF /\ Len(wk[w].newTables) # 0
           /\ ~assertTablesOrder(wk[w].newTables) \/ ~assertTablesOrder(rt.tables)
        THEN crashed' = "assertTablesOrder" /\ UNCHANGED <<tables, totalSize, ref, wk>>
        ELSE /\ UNCHANGED crashed
             /\ tables' = [tables EXCEPT ![l] = rt.tables]
             /\ totalSize' = [totalSize EXCEPT ![l] =
                                @ + SeqSum([id \in FileIDs |-> Size(id)], rt.added)
                                  - SeqSum([id \in FileIDs |-> Size(id)], rt.toDecr)]
             /\ ref' = RefMove(rt.added, rt.toDecr)
             /\ wk' = [wk EXCEPT ![w].pc = "delete",
                                 ![w].locking = FALSE,
                                 ![w].refDelta = IF wk[w].moveDown
                                                 THEN @ + ref'[wk[w].top[1]] - ref[wk[w].top[1]]
                                                 ELSE @]
  /\ UNCHANGED <<compactionFilter, info, closer, tbl, nextFileID, ManifestVars, StatusVars, OracleVars, finished, ad, rd>>

\* Fault model for C20: deleteTables that removes nothing.
deleteTablesNone(tbls, toDel) == [tables |-> tbls, removed |-> 0]

\* Fault model for C12: deleteTables without the totalSize update.
deleteTablesKeepSize(tbls, toDel) ==
  [tables |-> SelectNotIn(tbls, Range(toDel)), removed |-> 0]

\* levelHandler.deleteTables: the table list it leaves and the size it takes off.
deleteTables(tbls, toDel) ==
  [tables |-> SelectNotIn(tbls, Range(toDel)),
   removed |-> SeqSum([id \in FileIDs |-> Size(id)],
                      SelectNotIn(tbls, Range(tbls) \ Range(toDel)))]

\* thisLevel.deleteTables(cd.top) with its decrRefs, then the deferred
\* calls as runCompactDef and doCompact return: forceDecrRefs(newTables) and
\* cstatus.delete(cd).
Delete(w) ==
  /\ wk[w].pc = "delete"
  /\ crashed = "no"
  /\ ~ReadLocked(wk[w].level)
  /\ \E l \in {wk[w].level} : \E dt \in {deleteTables(tables[l], wk[w].top)} :
        IF l # 0 /\ ~assertTablesOrder(dt.tables)
        THEN /\ crashed' = "assertTablesOrder"
             /\ UNCHANGED <<tables, totalSize, ref, wk, cranges, delSize, finished>>
        ELSE /\ UNCHANGED crashed
             /\ tables' = [tables EXCEPT ![l] = dt.tables]
             /\ totalSize' = [totalSize EXCEPT ![l] = @ - dt.removed]
             /\ ref' = RefMove(<<>>, wk[w].top \o wk[w].newTables)
             /\ cstatusDelete(wk[w])
             /\ finished' = finished \cup {<<l, wk[w].top[1]>>}
             /\ wk' = [wk EXCEPT ![w] = IdleW]
  /\ UNCHANGED <<compactionFilter, info, closer, tbl, nextFileID, ManifestVars, OracleVars, ad, rd>>

\* doCompact returns (false, err): its deferred cstatus.delete(cd) runs and
\* runWorker goes on to the priorities left.
doCompactErr(w) ==
  /\ cstatusDelete(wk[w])
  /\ wk' = [wk EXCEPT ![w] = IF wk[w].prios = <<>> THEN [IdleW EXCEPT !.err = TRUE]
                             ELSE [IdleW EXCEPT !.pc = "doCompact", !.prios = wk[w].prios,
                                                !.err = TRUE]]

\* The prefixes of toDecr that decrRefs gets through before a DecrRef
\* returns an error: the last one took its table's count to zero, and
\* removing the file failed.  inc are the IncrRefs made just before.
decrRefsErr(inc, toDecr) ==
  {k \in 1..Len(toDecr) : RefMove(inc, SubSeq(toDecr, 1, k))[toDecr[k]] = 0}

\* compactBuildTables returns an error: y.CreateSyncedFile fails for the
\* first output file, and runCompactDef returns it.
BuildFail(w) ==
  /\ wk[w].pc = "build"
  /\ crashed = "no"
  /\ checkInvariants(wk[w])
  /\ ~(wk[w].level > 0 /\ wk[w].bot = <<>>)
  /\ MergeInput(wk[w].top, wk[w].bot) # <<>>
  /\ doCompactErr(w)
  /\ UNCHANGED <<compactionFilter, info, closer, FileVars, LevelVars, ManifestVars, OracleVars, finished,
                 ad, rd, crashed>>

\* nextLevel.replaceTables(newTables) returns the error of its decrRefs:
\* the new tables are installed, thisLevel.deleteTables is not called, and
\* the deferred forceDecrRefs(newTables) and cstatus.delete(cd) run.
ReplaceFail(w) ==
  /\ wk[w].pc = "replace"
  /\ crashed = "no"
  /\ ~ReadLocked(wk[w].level + 1)
  /\ Len(wk[w].newTables) # 0
  /\ \E l \in {wk[w].level + 1} : \E rt \in {replaceTables(tables[l], wk[w].newTables)} :
        /\ assertTablesOrder(wk[w].newTables) /\ assertTablesOrder(rt.tables)
        /\ \E k \in decrRefsErr(rt.added, rt.toDecr) :
              ref' = RefMove(rt.added, SubSeq(rt.toDecr, 1, k) \o wk[w].newTables)
        /\ tables' = [tables EXCEPT ![l] = rt.tables]
        /\ totalSize' = [totalSize EXCEPT ![l] =
                           @ + SeqSum([id \in FileIDs |-> Size(id)], rt.added)
                             - SeqSum([id \in FileIDs |-> Size(id)], rt.toDecr)]
  /\ doCompactErr(w)
  /\ UNCHANGED <<compactionFilter, info, closer, tbl, nextFileID, ManifestVars, OracleVars, finished,
                 ad, rd, crashed>>

\* thisLevel.deleteTables(cd.top) returns the error of its decrRefs: top is
\* out of the level, and the deferred calls run.
DeleteFail(w) ==
  /\ wk[w].pc = "delete"
  /\ crashed = "no"
  /\ ~ReadLocked(wk[w].level)
  /\ \E l \in {wk[w].level} : \E dt \in {deleteTables(tables[l], wk[w].top)} :
        /\ l = 0 \/ assertTablesOrder(dt.tables)
        /\ \E k \in decrRefsErr(<<>>, wk[w].top) :
              ref' = RefMove(<<>>, SubSeq(wk[w].top, 1, k) \o wk[w].newTables)
        /\ tables' = [tables EXCEPT ![l] = dt.tables]
        /\ totalSize' = [totalSize EXCEPT ![l] = @ - dt.removed]
  /\ doCompactErr(w)
  /\ UNCHANGED <<compactionFilter, info, closer, tbl, nextFileID, ManifestVars, OracleVars, finished,
                 ad, rd, crashed>>

\* ----------------------------------------------------------------- flusher
\* stalled, obsL0 and obsL1 are history of the flusher's last call: whether
\* it stalled, and the level 0 table count and level 1 size at the moment
\* its stall loop broke.  err is what the call returned (TRUE = an error),
\* appendFailed whether its manifest.addChanges failed, and failures counts
\* the failed appends so far.
IdleA == [pc |-> "idle", id |-> NoTable, stalled |-> FALSE, obsL0 |-> 0, obsL1 |-> 0,
          err |-> FALSE, appendFailed |-> FALSE, failures |-> 0,
          log |-> "none", logLevel |-> 0]

\* The user keys the workload deletes.
DelKeys == {1}

\* The tables a memtable flush can hand to addLevel0Table: some user keys,
\* each a put or a delete, all at the flush's commit timestamp.
NewTableContents(ts) ==
  {{Rec(k, ts, k \in D) : k \in K} : K \in (SUBSET UserKeys) \ {{}}, D \in SUBSET DelKeys}

\* Fault model for C16: a failed manifest append that is not returned.
returnsErrorNever(failed) == FALSE

\* addLevel0Table after manifest.addChanges: if err != nil { return err }
returnsError(failed) == failed

\* The flush builds and opens the table file (one reference, its caller's)
\* and calls addLevel0Table, whose manifest.addChanges(create(id, 0))
\* succeeds or fails.  After a failure the memtable is still to be flushed.
addLevel0TableAppend(failed) ==
  /\ ad.pc = "idle"
  /\ crashed = "no"
  /\ commitTs < MaxTs
  /\ nextFileID <= MaxFileID
  /\ \E recs \in NewTableContents(commitTs + 1) :
        tbl' = [tbl EXCEPT ![nextFileID] = recs]
  /\ ref' = [ref EXCEPT ![nextFileID] = 1]
  /\ nextFileID' = nextFileID + 1
  /\ manifest' = IF failed THEN manifest ELSE [manifest EXCEPT ![nextFileID] = 0]
  /\ assigned' = assigned \cup Assigns(manifest, manifest')
  /\ ad' = [IdleA EXCEPT !.pc = IF returnsError(failed) THEN "idle" ELSE "try",
                          !.id = nextFileID,
                          !.err = returnsError(failed),
                          !.appendFailed = failed,
                          !.failures = ad.failures + (IF failed THEN 1 ELSE 0)]
  /\ commitTs' = IF failed THEN commitTs ELSE commitTs + 1
  /\ UNCHANGED <<compactionFilter, info, closer, LevelVars, StatusVars, minReadTs, finished, wk, rd, crashed>>

\* addLevel0Table when the manifest takes the change.
AddAppend == addLevel0TableAppend(FALSE)

\* addLevel0Table when the manifest's write fails.
AddAppendFail ==
  /\ ad.failures < MaxAppendFailures
  /\ addLevel0TableAppend(TRUE)

\* Fault model for C24: the stall test one table late.
tryAddLevel0TableLate(tbls) == ~(Len(tbls) > NumLevelZeroTablesStall)

\* levelHandler.tryAddLevel0Table
tryAddLevel0Table(tbls) == ~(Len(tbls) >= NumLevelZeroTablesStall)

\* One turn of addLevel0Table's loop.  On success the level takes its
\* reference, addLevel0Table returns and its caller drops its own.
AddTry ==
  /\ ad.pc = "try"
  /\ crashed = "no"
  /\ ~ReadLocked(0)
  /\ IF tryAddLevel0Table(tables[0])
     THEN /\ tables' = [tables EXCEPT ![0] = Append(@, ad.id)]
          /\ ref' = RefMove(<<ad.id>>, <<ad.id>>)
          /\ totalSize' = [totalSize EXCEPT ![0] = @ + Size(ad.id)]
          /\ ad' = [ad EXCEPT !.pc = "idle"]
     ELSE /\ ad' = [ad EXCEPT !.pc = "stallL0", !.stalled = TRUE,
                              !.log = "none", !.logLevel = 0]
          /\ UNCHANGED <<tables, ref, totalSize>>
  /\ UNCHANGED <<compactionFilter, info, closer, tbl, nextFileID, ManifestVars, StatusVars, OracleVars, finished, wk, rd,
                 crashed>>

\* The stall loop's first test: !lc.isL0Compactable().  While it fails the
\* loop sleeps and tests again.
StallL0 ==
  /\ ad.pc = "stallL0"
  /\ crashed = "no"
  /\ ~isL0Compactable
  /\ ad' = [ad EXCEPT !.pc = "stallL1"]
  /\ UNCHANGED <<compactionFilter, info, closer, FileVars, LevelVars, ManifestVars, StatusVars, OracleVars, finished, wk,
                 rd, crashed>>

\* The stall loop's second test: !lc.levels[1].isCompactable(0).
StallL1 ==
  /\ ad.pc = "stallL1"
  /\ crashed = "no"
  /\ IF ~isCompactable(1, 0)
     THEN ad' = [ad EXCEPT !.pc = "try", !.obsL0 = Len(tables[0]), !.obsL1 = totalSize[1]]
     ELSE ad' = [ad EXCEPT !.pc = "stallL0"]
  /\ UNCHANGED <<compactionFilter, info, closer, FileVars, LevelVars, ManifestVars, StatusVars, OracleVars, finished, wk,
                 rd, crashed>>

\* ------------------------------------------------------------------- reads
\* sawPost, sawPre and cand are history of the transaction's first get: the
\* compactions whose level it read after their deleteTables, those whose
\* next level it read before their replaceTables, and the versions of its
\* key that were in the levels at each of its steps.
IdleR == [pc |-> "idle", uk |-> NoKey, ts |-> 0, level |-> 0, held |-> <<>>, n |-> 0,
          prev |-> -1, res |-> -1, sawPost |-> {}, sawPre |-> {}, cand |-> {}]

\* Fault model for C15: the level 0 tables in insertion order.
refLevel0TablesForward(tbls) == tbls

refLevel0Tables(tbls) == Reverse(tbls)

refLevelNTable(tbls, key) ==
  LET idx == Search(Len(tbls), {i \in 0..(Len(tbls) - 1) :
                                   CompareKeys(Biggest(tbls[i + 1]), key) >= 0})
  IN IF idx >= Len(tbls) THEN <<>> ELSE <<tbls[idx + 1]>>

refTablesForKey(l, key) ==
  IF l = 0 THEN refLevel0Tables(tables[0]) ELSE refLevelNTable(tables[l], key)

\* getInTable: the version found (a tombstone is a value too), 0 for none.
getInTable(key, id) ==
  LET ge == {k \in Keys(id) : k >= key}
  IN IF ge = {} THEN 0
     ELSE IF ~SameKey(key, SetMin(ge)) THEN 0
     ELSE ParseTs(SetMin(ge))

RECURSIVE getInTables(_, _)
getInTables(key, tbls) ==
  IF tbls = <<>> THEN 0
  ELSE IF getInTable(key, Head(tbls)) # 0 THEN getInTable(key, Head(tbls))
  ELSE getInTables(key, Tail(tbls))

\* Fault model for C9: the levels read from the last one upward.
LevelOrderDescending == [i \in 1..MaxLevels |-> MaxLevels - i]

\* The order in which levelsController.get goes through the levels.
LevelOrder == [i \in 1..MaxLevels |-> i - 1]
FirstLevel == LevelOrder[1]
PosOf(l) == CHOOSE i \in 1..MaxLevels : LevelOrder[i] = l
LastLevel(l) == PosOf(l) = MaxLevels
NextLevel(l) == LevelOrder[PosOf(l) + 1]

\* levelsController.get's loop from the i-th level of its order on, when
\* nothing else runs: the version it returns, 0 for none.
RECURSIVE levelsGetFrom(_, _)
levelsGetFrom(key, i) ==
  IF i > MaxLevels THEN 0
  ELSE IF getInTables(key, refTablesForKey(LevelOrder[i], key)) # 0
       THEN getInTables(key, refTablesForKey(LevelOrder[i], key))
       ELSE levelsGetFrom(key, i + 1)
levelsGet(key) == levelsGetFrom(key, 1)

\* A keyValuePair: the key asked for, the found flag and the version of the
\* value (0 for none).
Pair(key, found, val) == [key |-> key, found |-> found, val |-> val]

\* multiGetLevel0's inner body for one pair and one table.
multiGetLevel0Probe(pair, id) ==
  IF pair.found THEN pair
  ELSE IF \/ BytesCompare(KeyBytes(pair.key), KeyBytes(Smallest(id))) < 0
          \/ BytesCompare(KeyBytes(pair.key), KeyBytes(Biggest(id))) > 0
  THEN pair
  ELSE IF getInTable(pair.key, id) # 0
  THEN Pair(pair.key, TRUE, getInTable(pair.key, id))
  ELSE pair

\* levelHandler.multiGetLevel0: table by table, every pair.
RECURSIVE multiGetLevel0(_, _)
multiGetLevel0(pairs, tbls) ==
  IF tbls = <<>> THEN pairs
  ELSE multiGetLevel0([i \in 1..Len(pairs) |-> multiGetLevel0Probe(pairs[i], Head(tbls))],
                      Tail(tbls))

\* levelHandler.multiGetLevelN: tbls[i] is refLevelNTable(pairs[i].key), <<>> for nil.
multiGetLevelN(pairs, tbls) ==
  [i \in 1..Len(pairs) |->
     IF pairs[i].found THEN pairs[i]
     ELSE IF tbls[i] = <<>> THEN pairs[i]
     ELSE IF getInTable(pairs[i].key, tbls[i][1]) # 0
     THEN Pair(pairs[i].key, TRUE, getInTable(pairs[i].key, tbls[i][1]))
     ELSE pairs[i]]

\* levelHandler.multiGet on level l, with refTablesForKeys.
multiGet(l, pairs) ==
  IF l = 0 THEN multiGetLevel0(pairs, refLevel0Tables(tables[0]))
  ELSE multiGetLevelN(pairs, [i \in 1..Len(pairs) |-> refLevelNTable(tables[l], pairs[i].key)])

\* levelsController.multiGet from level l on, when nothing else runs.
RECURSIVE levelsMultiGetFrom(_, _)
levelsMultiGetFrom(pairs, l) ==
  IF l >= MaxLevels THEN pairs
  ELSE levelsMultiGetFrom(multiGet(l, pairs), l + 1)
levelsMultiGet(pairs) == levelsMultiGetFrom(pairs, 0)

\* the versions of user key uk, no newer than ts, the levels hold
Present(uk, ts) ==
  {ParseTs(q.key) : q \in {x \in UNION {RecsOf(tables[l]) : l \in Levels} :
                              ParseKey(x.key) = uk /\ ParseTs(x.key) <= ts}}

\* levelsController.get after level rec.level gave v: return it, or go on to
\* the next level.  A first get is followed by a second one.
Advance(rec, v) ==
  IF v = 0 /\ ~LastLevel(rec.level)
  THEN [rec EXCEPT !.pc = "ref", !.held = <<>>, !.level = NextLevel(rec.level)]
  ELSE IF rec.n = 1
  THEN [rec EXCEPT !.pc = "ref", !.held = <<>>, !.level = FirstLevel, !.n = 2, !.prev = v]
  ELSE [rec EXCEPT !.pc = "done", !.held = <<>>, !.level = FirstLevel, !.res = v]

\* A transaction starts at the last commit timestamp and issues the first of
\* two get(uk).
RBegin(r) ==
  /\ rd[r].pc = "idle"
  /\ crashed = "no"
  /\ \E uk \in UserKeys :
        rd' = [rd EXCEPT ![r] = [IdleR EXCEPT !.pc = "ref", !.uk = uk, !.ts = commitTs,
                                              !.level = FirstLevel, !.n = 1,
                                              !.cand = Present(uk, commitTs)]]
  /\ UNCHANGED <<compactionFilter, info, closer, FileVars, LevelVars, ManifestVars, StatusVars, OracleVars, finished, wk,
                 ad, crashed>>

\* levelHandler.get: refTablesForKey under the level's read lock.  With no
\* table to search the level is done with.
RRef(r) ==
  /\ rd[r].pc = "ref"
  /\ crashed = "no"
  /\ LET l == rd[r].level
         held == refTablesForKey(l, KeyWithTs(rd[r].uk, rd[r].ts))
         seen == IF rd[r].n # 1 THEN rd[r]
                 ELSE [rd[r] EXCEPT
                         !.sawPost = @ \cup {t \in finished : t[1] = l},
                         !.sawPre = @ \cup {<<wk[w].level, wk[w].top[1]>> :
                                              w \in {x \in Workers :
                                                       /\ wk[x].pc \in {"build", "append",
                                                                         "replace"}
                                                       /\ wk[x].level + 1 = l}},
                         !.cand = @ \cap Present(rd[r].uk, rd[r].ts)]
     IN /\ ref' = RefMove(held, <<>>)
        /\ rd' = [rd EXCEPT ![r] = IF held = <<>> THEN Advance(seen, 0)
                                   ELSE [seen EXCEPT !.pc = "search", !.held = held]]
  /\ UNCHANGED <<compactionFilter, info, closer, tbl, nextFileID, LevelVars, ManifestVars, StatusVars, OracleVars, finished,
                 wk, ad, crashed>>

\* levelHandler.get: getInTables on the referenced tables, the deferred
\* forceDecrRefs, and levelsController.get's step to the next level.
RSearch(r) ==
  /\ rd[r].pc = "search"
  /\ crashed = "no"
  /\ ref' = RefMove(<<>>, rd[r].held)
  /\ rd' = [rd EXCEPT ![r] =
              Advance(rd[r], getInTables(KeyWithTs(rd[r].uk, rd[r].ts), rd[r].held))]
  /\ UNCHANGED <<compactionFilter, info, closer, tbl, nextFileID, LevelVars, ManifestVars, StatusVars, OracleVars, finished,
                 wk, ad, crashed>>

\* The transaction ends.
REnd(r) ==
  /\ rd[r].pc = "done"
  /\ crashed = "no"
  /\ rd' = [rd EXCEPT ![r] = IdleR]
  /\ UNCHANGED <<compactionFilter, info, closer, FileVars, LevelVars, ManifestVars, StatusVars, OracleVars, finished, wk,
                 ad, crashed>>

\* ------------------------------------------------------------ specification
\* levelHandler.initTables: by file id at level 0, by smallest key below.
RECURSIVE initTables(_, _)
initTables(l, ids) ==
  IF ids = {} THEN <<>>
  ELSE LET m == IF l = 0 THEN SetMin(ids)
                ELSE CHOOSE x \in ids : \A y \in ids : Smallest(x) <= Smallest(y)
       IN <<m>> \o initTables(l, ids \ {m})

\* ------------------------------------------------------------------ locks
\* The steps below take the locks one call at a time.  A sync.RWMutex gives
\* Lock to a caller once no reader holds it, and lets no new reader in from
\* the moment Lock was called.

\* A worker has called s.Lock() on level l, in replaceTables or in
\* deleteTables, and has not left the critical section.
Writing(l) ==
  \E w \in Workers : /\ wk[w].locking
                     /\ \/ wk[w].pc = "replace" /\ l = wk[w].level + 1
                        \/ wk[w].pc = "delete" /\ l = wk[w].level

\* The stalled addLevel0Table holds lc.cstatus.RLock().
CsRLocked == ad.pc = "stallL0" /\ ad.log = "rlocked"

\* replaceTables / deleteTables: s.Lock() is called.
LevelLock(w) ==
  /\ wk[w].pc \in {"replace", "delete"}
  /\ crashed = "no"
  /\ ~wk[w].locking
  /\ wk' = [wk EXCEPT ![w].locking = TRUE]
  /\ UNCHANGED <<compactionFilter, info, closer, FileVars, LevelVars, ManifestVars, StatusVars,
                 OracleVars, finished, ad, rd, crashed>>

\* replaceTables and deleteTables once Lock has returned.
ReplaceLocked(w) == wk[w].locking /\ Replace(w)

DeleteLocked(w) == wk[w].locking /\ Delete(w)

\* runWorker's tick when lockLevels gets both read locks (no writer has
\* called Lock on either level) and, for level 0, compareAndAdd gets the
\* CompactStatus lock.
TickLocked(w) ==
  /\ \A l \in Levels : ~Writing(l)
  /\ ~CsRLocked
  /\ Tick(w)

DoCompactLocked(w) ==
  /\ wk[w].pc = "doCompact"
  /\ \A l \in {Head(wk[w].prios), Head(wk[w].prios) + 1} : ~Writing(l)
  /\ Head(wk[w].prios) = 0 => ~CsRLocked
  /\ DoCompact(w)

\* compareAndAdd takes the CompactStatus lock exclusively.
CompareAndAddLocked(w) == ~CsRLocked /\ CompareAndAdd(w)

\* addLevel0Table after a failed tryAddLevel0Table: lc.cstatus.RLock().
stallRLock ==
  /\ ad.pc = "stallL0"
  /\ crashed = "no"
  /\ ad.log = "none"
  /\ ad' = [ad EXCEPT !.log = "rlocked", !.logLevel = 0]
  /\ UNCHANGED <<compactionFilter, info, closer, FileVars, LevelVars, ManifestVars, StatusVars,
                 OracleVars, finished, wk, rd, crashed>>

\* The logging loop's lc.levels[i].getTotalSize(): the level's read lock is
\* taken and released.
stallGetTotalSize ==
  /\ CsRLocked
  /\ crashed = "no"
  /\ ad.logLevel < MaxLevels
  /\ ~Writing(ad.logLevel)
  /\ ad' = [ad EXCEPT !.logLevel = @ + 1]
  /\ UNCHANGED <<compactionFilter, info, closer, FileVars, LevelVars, ManifestVars, StatusVars,
                 OracleVars, finished, wk, rd, crashed>>

\* lc.cstatus.RUnlock() after the logging loop.
stallRUnlock ==
  /\ CsRLocked
  /\ crashed = "no"
  /\ ad.logLevel = MaxLevels
  /\ ad' = [ad EXCEPT !.log = "done"]
  /\ UNCHANGED <<compactionFilter, info, closer, FileVars, LevelVars, ManifestVars, StatusVars,
                 OracleVars, finished, wk, rd, crashed>>

\* The stall loop proper starts after the logging.
StallL0Logged == ad.log = "done" /\ StallL0

StallL1Logged == ad.log = "done" /\ StallL1

\* ------------------------------------------------------------ getTableInfo
IdleI == [pc |-> "idle", level |-> 0, old |-> <<>>, seen |-> <<>>]

\* The slice headers a read of l.tables can give when the list went from old
\* to new while it was read: the header's words are read one by one and
\* nothing orders them with the writer's s.tables = ..., so the array and
\* the length can each be the old or the new one.
sliceHeaders(old, new) == {[array |-> a, len |-> Len(b)] : a \in {old, new}, b \in {old, new}}

\* for _, t := range l.tables: the header of the next level's list is being
\* read. No lock is taken.
getTableInfoLoad ==
  /\ crashed = "no"
  /\ info.pc \in {"idle", "load"}
  /\ \E l \in {IF info.pc = "idle" THEN 0 ELSE info.level} :
       info' = [pc |-> "range", level |-> l, old |-> tables[l], seen |-> <<>>]
  /\ UNCHANGED <<FileVars, LevelVars, ManifestVars, StatusVars, OracleVars, finished, wk, ad, rd,
                 crashed, compactionFilter, closer>>

\* The header is complete and the loop body runs over it: t.ID(),
\* t.Smallest(), t.Biggest() of every slot. A length beyond the array makes
\* the loop read slots that hold no table, and the process faults.
getTableInfoRange ==
  /\ crashed = "no"
  /\ info.pc = "range"
  /\ \E hdr \in sliceHeaders(info.old, tables[info.level]) :
       IF hdr.len > Len(hdr.array)
         THEN crashed' = "getTableInfo" /\ UNCHANGED info
         ELSE /\ UNCHANGED crashed
              /\ info' = [pc |-> IF info.level + 1 < MaxLevels THEN "load" ELSE "idle",
                          level |-> IF info.level + 1 < MaxLevels THEN info.level + 1 ELSE 0,
                          old |-> <<>>,
                          seen |-> SubSeq(hdr.array, 1, hdr.len)]
  /\ UNCHANGED <<FileVars, LevelVars, ManifestVars, StatusVars, OracleVars, finished, wk, ad, rd,
                 compactionFilter, closer>>

\* The directories the engine is opened on: file id i holds files[i], the
\* manifest has it at level levels[i], and ts is the last commit timestamp.
InitDisks ==
  {[files |-> <<{Rec(1, 2, FALSE)}, {Rec(1, 1, FALSE)}>>, levels |-> <<0, 1>>, ts |-> 2],
   [files |-> <<{Rec(2, 3, FALSE)}, {Rec(1, 2, TRUE), Rec(2, 2, FALSE)}, {Rec(1, 1, FALSE)}>>,
    levels |-> <<0, 1, 2>>, ts |-> 3],
   [files |-> <<{Rec(1, 1, FALSE), Rec(2, 1, FALSE)}, {Rec(1, 2, FALSE)}>>,
    levels |-> <<0, 0>>, ts |-> 2],
   [files |-> <<{Rec(1, 2, FALSE)}, {Rec(2, 2, FALSE)}, {Rec(1, 1, FALSE), Rec(2, 1, FALSE)}>>,
    levels |-> <<0, 0, 2>>, ts |-> 2]}

\* newLevelsController: the levels as loaded from the manifest.
InitOn(disk, filter) ==
  /\ tbl = [id \in FileIDs |-> IF id <= Len(disk.files) THEN disk.files[id] ELSE {}]
  /\ ref = [id \in FileIDs |-> IF id <= Len(disk.files) THEN 1 ELSE 0]
  /\ nextFileID = Len(disk.files) + 1
  /\ tables = [l \in Levels |->
                 initTables(l, {id \in 1..Len(disk.files) : disk.levels[id] = l})]
  /\ totalSize = [l \in Levels |->
                    SumOver([id \in FileIDs |-> Size(id)],
                            {id \in 1..Len(disk.files) : disk.levels[id] = l})]
  /\ cranges = [l \in Levels |-> <<>>]
  /\ delSize = [l \in Levels |-> 0]
  /\ manifest = [id \in FileIDs |-> IF id <= Len(disk.files) THEN disk.levels[id] ELSE -1]
  /\ assigned = {<<id, disk.levels[id]>> : id \in 1..Len(disk.files)}
  /\ minReadTs = 0
  /\ commitTs = disk.ts
  /\ finished = {}
  /\ wk = [w \in Workers |-> IdleW]
  /\ ad = IdleA
  /\ rd = [r \in Readers |-> IdleR]
  /\ crashed = "no"
  /\ compactionFilter = filter
  /\ info = IdleI
  /\ closer = [closed |-> FALSE, done |-> [w \in Workers |-> 0]]

Init == \E disk \in InitDisks : InitOn(disk, NoFilter)

WorkerStep(w) ==
  \/ Tick(w) \/ DoCompact(w) \/ CompareAndAdd(w) \/ Build(w)
  \/ ManifestAppend(w) \/ Replace(w) \/ Delete(w)

AdderStep == AddAppend \/ AddTry \/ StallL0 \/ StallL1

ReaderStep(r) == RBegin(r) \/ RRef(r) \/ RSearch(r) \/ REnd(r)

\* The compactors and the flusher.
Next ==
  \/ \E w \in Workers : WorkerStep(w)
  \/ AdderStep

Spec == Init /\ [][Next]_vars

\* The compactors and the readers, on a store no flush is adding to.
NextRead ==
  \/ \E w \in Workers : WorkerStep(w)
  \/ \E r \in Readers : ReaderStep(r)

SpecRead == Init /\ [][NextRead]_vars

\* The compactors and a caller of getTableInfo, on a store no flush is adding to.
NextInfo ==
  \/ \E w \in Workers : WorkerStep(w)
  \/ getTableInfoLoad
  \/ getTableInfoRange

SpecInfo == Init /\ [][NextInfo]_vars

\* Stores on which a level 0 compaction, a level 1 compaction and a stalled
\* flush run side by side.
LockDisks ==
  {[files |-> <<{Rec(1, 1, FALSE)}, {Rec(1, 2, FALSE)}, {Rec(2, 1, FALSE), Rec(2, 2, FALSE)}>>,
    levels |-> <<0, 0, 1>>, ts |-> 2],
   [files |-> <<{Rec(1, 1, FALSE), Rec(2, 1, FALSE)}, {Rec(1, 2, FALSE)}>>,
    levels |-> <<0, 0>>, ts |-> 2]}

InitLock == \E disk \in LockDisks : InitOn(disk, NoFilter)

\* The compactors and the flusher, lock call by lock call.
NextLock ==
  \/ \E w \in Workers :
        \/ TickLocked(w) \/ DoCompactLocked(w) \/ CompareAndAddLocked(w) \/ Build(w)
        \/ ManifestAppend(w) \/ LevelLock(w) \/ ReplaceLocked(w) \/ DeleteLocked(w)
  \/ AddAppend \/ AddTry
  \/ stallRLock \/ stallGetTotalSize \/ stallRUnlock
  \/ StallL0Logged \/ StallL1Logged

SpecLock == InitLock /\ [][NextLock]_vars

\* The compactors and a flusher whose manifest append can fail.
NextAdd ==
  \/ \E w \in Workers : WorkerStep(w)
  \/ AdderStep
  \/ AddAppendFail

SpecAdd == Init /\ [][NextAdd]_vars

\* The closer is signalled: c.HasBeenClosed() becomes ready.
Close ==
  /\ ~closer.closed
  /\ crashed = "no"
  /\ closer' = [closer EXCEPT !.closed = TRUE]
  /\ UNCHANGED <<FileVars, LevelVars, ManifestVars, StatusVars, OracleVars, finished, wk, ad, rd,
                 crashed, compactionFilter, info>>

\* runWorker's select takes case <-c.HasBeenClosed(): return, and the
\* deferred c.Done() runs.
Exit(w) ==
  /\ wk[w].pc = "idle"
  /\ crashed = "no"
  /\ closer.closed
  /\ wk' = [wk EXCEPT ![w].pc = "exited"]
  /\ closer' = [closer EXCEPT !.done[w] = @ + 1]
  /\ UNCHANGED <<FileVars, LevelVars, ManifestVars, StatusVars, OracleVars, finished, ad, rd,
                 crashed, compactionFilter, info>>

\* The compactors until shutdown, on a store no flush is adding to.
NextClose ==
  \/ \E w \in Workers : WorkerStep(w)
  \/ \E w \in Workers : Exit(w)
  \/ Close

\* A worker's step is taken if it stays possible, and select's random
\* choice among its ready cases takes the closed channel in the end.
SpecClose ==
  /\ Init
  /\ [][NextClose]_vars
  /\ \A w \in Workers : WF_vars(WorkerStep(w)) /\ SF_vars(Exit(w))

\* The compactors with the errors runCompactDef can return, on a store no
\* flush is adding to.
NextFail ==
  \/ \E w \in Workers : WorkerStep(w)
  \/ \E w \in Workers : BuildFail(w) \/ ReplaceFail(w) \/ DeleteFail(w)

SpecFail == Init /\ [][NextFail]_vars

\* The guard lists a filter can supply: sorted user keys, as byte strings.
GuardSets == {<<>>, <<<<2>>>>, <<<<1, 1>>>>, <<<<1, 1>>, <<2>>>>}

\* The filters opt.CompactionFilterFactory can give.
Filters ==
  {[on |-> TRUE, guards |-> g, decision |-> d] :
      g \in GuardSets, d \in [UserKeys -> {"keep", "drop", "tomb"}]}

\* The compactors alone, on a store opened with or without a compaction
\* filter.
InitMerge == \E disk \in InitDisks : \E f \in Filters \cup {NoFilter} : InitOn(disk, f)

NextMerge == \E w \in Workers : WorkerStep(w)

SpecMerge == InitMerge /\ [][NextMerge]_vars

\* The compactors and the flusher under fair scheduling: each worker
\* goroutine keeps running (its ticker fires, its lock requests are granted),
\* and the flusher inside addLevel0Table keeps polling.
AdderWait == AddTry \/ StallL0 \/ StallL1

SpecLive ==
  /\ Init /\ [][Next]_vars
  /\ \A w \in Workers : WF_vars(WorkerStep(w))
  /\ WF_vars(AdderWait)

\* ------------------------------------------------------------------ claims
InFlight(w) == wk[w].pc \in {"build", "append", "replace", "delete"}
Inputs(w) == Range(wk[w].top) \cup Range(wk[w].bot)
InLevels(id) == \E l \in Levels : id \in Range(tables[l])

\* C1 (read monotonicity): the second of two successive get(k) at one read
\* timestamp never returns an older version, or none, after the first
\* returned a newer one; a tombstone counts as a version.
C1_ReadMonotonicity ==
  \A r \in Readers : rd[r].pc = "done" => rd[r].res >= rd[r].prev

\* The versions that have been readable in the levels: those of every table
\* the manifest has assigned to a level, but for a flush still to be added.
Stored ==
  UNION {tbl[id] : id \in {p[1] : p \in assigned} \ (IF ad.pc # "idle" THEN {ad.id} ELSE {})}

\* C2 (no loss during compaction): every version newer than the read mark
\* that has been readable in the levels is still returned by a get at its
\* own timestamp, whatever compactions have run since.
C2_NoLoss ==
  \A q \in Stored : ParseTs(q.key) > minReadTs => levelsGet(q.key) = ParseTs(q.key)

\* C3 (tombstone lifting), its "only if" half: a compaction of L into L+1
\* drops a tombstone that is the newest version of its key among the inputs
\* only if no level deeper than L+1 holds a version of the key.
C3_TombstoneLifting ==
  \A w \in Workers : \A t \in wk[w].lift : t.newest /\ t.dropped => ~t.deeper

\* Every add and every compaction is before its manifest append or past the
\* end of its install.
Quiet ==
  /\ ad.pc = "idle"
  /\ \A w \in Workers : wk[w].pc \notin {"replace", "delete"}

\* The level whose table list holds the table, -1 for none.
MemLevel(id) == IF InLevels(id) THEN CHOOSE l \in Levels : id \in Range(tables[l]) ELSE -1

\* C4 (manifest and memory agree): whenever no add and no compaction is
\* between its manifest append and the end of its install, the file-to-level
\* map the manifest replays to is the assignment of tables to levels in
\* memory; no input of a committed compaction is left in a table list.
C4_ManifestMemoryAgree ==
  Quiet => \A id \in FileIDs : manifest[id] = MemLevel(id)

\* A table the manifest has assigned to level l waits to be put there.
PendingInstall(id, l) ==
  \/ ad.pc # "idle" /\ ad.id = id /\ l = 0
  \/ \E w \in Workers : /\ wk[w].pc = "replace"
                        /\ id \in Range(wk[w].newTables)
                        /\ l = wk[w].level + 1

\* C5 (manifest before install): a table is in a level's list only once a
\* manifest change has assigned it to that level, and a table assigned to a
\* level is missing from its list only while it waits to be installed or
\* once the manifest records the change that took it out.
C5_ManifestBeforeInstall ==
  /\ \A l \in Levels : \A id \in Range(tables[l]) : <<id, l>> \in assigned
  /\ \A p \in assigned :
        p[1] \notin Range(tables[p[2]]) => PendingInstall(p[1], p[2]) \/ manifest[p[1]] # p[2]

\* A merge has installed its outputs, and a flush its table, each already
\* in the manifest.
C5_Witness ==
  /\ \E w \in Workers : /\ wk[w].pc = "delete" /\ ~wk[w].moveDown
                        /\ wk[w].newTables # <<>>
                        /\ \A id \in Range(wk[w].newTables) :
                              id \in Range(tables[wk[w].level + 1]) /\ manifest[id] = wk[w].level + 1
  /\ ad.pc = "idle" /\ ad.id # NoTable

\* C6 (level ordering): at every level >= 1 adjacent tables satisfy
\* biggest[i] < smallest[i+1], and no assertTablesOrder check has failed.
C6_LevelOrdering ==
  /\ crashed # "assertTablesOrder"
  /\ \A l \in 1..(MaxLevels - 1) : \A i \in 1..(Len(tables[l]) - 1) :
        CompareKeys(Biggest(tables[l][i]), Smallest(tables[l][i + 1])) < 0

\* Two compactions are installing into and deleting from a level that
\* holds several tables.
C6_Witness ==
  \E l \in 1..(MaxLevels - 1) :
     /\ Len(tables[l]) >= 2
     /\ \E v, w \in Workers : /\ wk[v].pc = "delete" /\ wk[v].level + 1 = l
                              /\ wk[w].pc \in {"replace", "delete"} /\ wk[w].level = l

\* C7 (reservation exclusivity): the ranges compactStatus holds for a level
\* are pairwise non-overlapping and no table is an input of two compactions
\* in flight; of two workers racing for overlapping ranges only one is
\* admitted.
C7_ReservationExclusivity ==
  /\ \A l \in Levels : \A i, j \in 1..Len(cranges[l]) :
        i # j => ~rangeOverlapsWith(cranges[l][i], cranges[l][j])
  /\ \A v, w \in Workers :
        v # w /\ InFlight(v) /\ InFlight(w) => Inputs(v) \cap Inputs(w) = {}

\* Two workers passed fillTables' tests for the same table; one has been
\* admitted, the other is at its compareAndAdd, which refuses.
C7_Witness ==
  \E v, w \in Workers :
     /\ wk[v].pc = "build" /\ wk[w].pc = "caa"
     /\ wk[v].level = wk[w].level /\ wk[v].top = wk[w].top
     /\ ~compareAndAddOk(wk[w])

\* a get holds the table
HeldByGet(id) == \E r \in Readers : id \in Range(rd[r].held)

\* C8 (reference safety): no table has a zero reference count while it is
\* in a level's table list, held by a get in progress, or an input of a
\* compaction that is still to read it.
C8_ReferenceSafety ==
  \A id \in FileIDs :
     (InLevels(id) \/ HeldByGet(id) \/ \E w \in Workers : wk[w].pc = "build" /\ id \in Inputs(w))
        => ref[id] > 0

\* A get still holds a table that a finished compaction took out of its
\* level: the get's reference alone keeps the file.
C8_Witness ==
  \E id \in FileIDs : HeldByGet(id) /\ ~InLevels(id) /\ ref[id] = 1 /\ finished # {}

\* C9 (ascending read order): no get reads a compaction's level after its
\* inputs were removed and its next level before its outputs were
\* installed; a get reports not found only if no version of its key was in
\* the levels all along.
C9_AscendingReadOrder ==
  \A r \in Readers :
     /\ rd[r].sawPost \cap rd[r].sawPre = {}
     /\ rd[r].n = 2 /\ rd[r].prev = 0 => rd[r].cand = {}

\* A get read a level before a compaction in flight installed into it, and
\* found its key.
C9_Witness ==
  \E r \in Readers : rd[r].n = 2 /\ rd[r].prev > 0 /\ rd[r].sawPre # {} /\ rd[r].cand # {}

\* C10 (stall correctness): a flush that stalled has its table in level 0
\* only after its stall loop broke in a state with fewer level 0 tables than
\* the compaction trigger and a level 1 no larger than its maximum.
C10_StallCorrectness ==
  ad.stalled /\ ad.pc = "idle" =>
     ad.obsL0 < NumLevelZeroTables /\ ad.obsL1 <= maxTotalSize(1)

\* A stalled flush got its table into level 0.
C10_Witness == ad.stalled /\ ad.pc = "idle" /\ ad.id \in Range(tables[0])

\* C11 (stall liveness): under fair scheduling every addLevel0Table call
\* whose manifest append succeeded installs its table in level 0 and
\* returns.
C11_StallLiveness == (ad.pc = "try") ~> (ad.pc = "idle")

\* C12 (size accounting): at every level totalSize is the sum of the sizes
\* of the tables in the level's list, after every initTables,
\* tryAddLevel0Table, replaceTables and deleteTables.
C12_SizeAccounting ==
  \A l \in Levels : totalSize[l] = SeqSum([id \in FileIDs |-> Size(id)], tables[l])

\* Compactions have replaced and deleted tables and a flush has been added.
C12_Witness ==
  /\ finished # {}
  /\ ad.pc = "idle" /\ ad.id \in Range(tables[0])
  /\ \E w \in Workers : wk[w].pc = "delete" /\ ~wk[w].moveDown /\ wk[w].bot # <<>>

\* No compaction, add or read is in progress.
Quiescent ==
  /\ \A w \in Workers : wk[w].pc = "idle"
  /\ \A r \in Readers : rd[r].pc \in {"idle", "done"}
  /\ ad.pc = "idle"

\* The table was a top or bot input of a committed merge: the manifest had
\* it at a level and has recorded its deletion.
WasMerged(id) == manifest[id] = -1 /\ \E l \in Levels : <<id, l>> \in assigned

\* C13 (reference balance): no reference count goes below zero, and once
\* all compactions and reads have finished every table in a level has
\* reference count 1 and every input of a committed merge has count 0.
C13_ReferenceBalance ==
  /\ \A id \in FileIDs : ref[id] >= 0
  /\ Quiescent => \A id \in FileIDs : /\ (InLevels(id) => ref[id] = 1)
                                       /\ (WasMerged(id) => ref[id] = 0)

\* The merge of worker w has written its output tables.
Merged(w) == wk[w].pc \in {"append", "replace", "delete"} /\ ~wk[w].moveDown

\* All user keys of the table are on one side of guard g.
GuardAligned(id, g) ==
  \/ \A k \in Keys(id) : BytesCompare(KeyName(ParseKey(k)), g) < 0
  \/ \A k \in Keys(id) : BytesCompare(KeyName(ParseKey(k)), g) >= 0

\* C14 (guard alignment): no output table of a merge whose filter supplies
\* guards holds user keys on both sides of a guard.
C14_GuardAlignment ==
  \A w \in Workers :
     Merged(w) => \A id \in Range(wk[w].newTables) :
                    \A g \in Range(compactionFilter.guards) : GuardAligned(id, g)

\* The valid match of a key in a set of records: the newest version of its
\* user key that is no newer than its timestamp, 0 for none.
MatchIn(recs, key) ==
  LET V == {ParseTs(q.key) : q \in {x \in recs : /\ SameKey(x.key, key)
                                                  /\ ParseTs(x.key) <= ParseTs(key)}}
  IN IF V = {} THEN 0 ELSE SetMax(V)

\* The match of a level: at level 0 that of the matching table with the
\* largest id, below that of the level's tables.
LevelMatch(l, key) ==
  IF l = 0
  THEN LET M == {id \in Range(tables[0]) : MatchIn(tbl[id], key) # 0}
       IN IF M = {} THEN 0 ELSE MatchIn(tbl[SetMax(M)], key)
  ELSE MatchIn(RecsOf(tables[l]), key)

\* The match of the lowest-numbered level that has one, 0 for none.
FirstMatch(key) ==
  LET L == {l \in Levels : LevelMatch(l, key) # 0}
  IN IF L = {} THEN 0 ELSE LevelMatch(SetMin(L), key)

\* C15 (point-read result): on a quiescent state get(k) returns the match of
\* the lowest-numbered level that holds one, within level 0 that of the
\* matching table with the largest id, and nothing only if no table matches.
C15_PointReadResult ==
  Quiescent => \A uk \in UserKeys : \A ts \in 1..MaxTs :
                  levelsGet(KeyWithTs(uk, ts)) = FirstMatch(KeyWithTs(uk, ts))

\* A quiescent state in which two level 0 tables and a deeper level all
\* match one key, with different versions.
C15_Witness ==
  /\ Quiescent
  /\ \E uk \in UserKeys :
        LET key == KeyWithTs(uk, MaxTs)
        IN /\ \E a, b \in Range(tables[0]) :
                 /\ a < b /\ MatchIn(tbl[a], key) # 0
                 /\ MatchIn(tbl[b], key) > MatchIn(tbl[a], key)
           /\ \E l \in 1..(MaxLevels - 1) : LevelMatch(l, key) # 0
           /\ levelsGet(key) = LevelMatch(0, key)

\* C16: addLevel0Table returns an error only when its manifest append
\* failed, and never after a stall; a call whose append failed returns the
\* error with the table in no level and holding only its caller's
\* reference, and its step leaves every level's list and size as they were.
C16_AddErrors ==
  /\ [](ad.err => ad.appendFailed /\ ~ad.stalled)
  /\ [](ad.appendFailed => /\ ad.err /\ ad.pc = "idle"
                           /\ ~InLevels(ad.id)
                           /\ manifest[ad.id] = -1
                           /\ ref[ad.id] = 1)
  /\ [][ad'.appendFailed /\ ad'.id # ad.id => UNCHANGED <<tables, totalSize, manifest>>]_vars

C16_Witness == ad.err /\ ad.id # NoTable /\ Len(tables[0]) > 0 /\ \E w \in Workers : wk[w].pc # "idle"

\* C17: once the closer is signalled every worker terminates and has
\* signalled Done exactly once; a worker returns only from its select,
\* between compactions, so no reservation is left when all have returned.
C17_Shutdown ==
  /\ closer.closed ~> (\A w \in Workers : wk[w].pc = "exited" /\ closer.done[w] = 1)
  /\ [](\A w \in Workers : closer.done[w] = (IF wk[w].pc = "exited" THEN 1 ELSE 0))
  /\ []((\A w \in Workers : wk[w].pc = "exited") => \A l \in Levels : cranges[l] = <<>>)
  /\ [][\A w \in Workers : wk'[w].pc = "exited" /\ wk[w].pc # "exited" => wk[w] = IdleW]_vars

\* The versions of user key uk among recs, above the read mark m and not.
VersionsAbove(recs, uk, m) == {r \in recs : ParseKey(r.key) = uk /\ ParseTs(r.key) > m}
VersionsUpTo(recs, uk, m) == {r \in recs : ParseKey(r.key) = uk /\ ParseTs(r.key) <= m}
Newest(recs) == CHOOSE r \in recs : \A q \in recs : r.key <= q.key

\* What a merge with read mark m must keep of its inputs in its outputs.
Retained(in, out, m, overlap) ==
  \A uk \in UserKeys :
     LET lo == VersionsUpTo(in, uk, m)
     IN /\ VersionsAbove(out, uk, m) = VersionsAbove(in, uk, m)
        /\ \A r \in VersionsUpTo(out, uk, m) : lo # {} /\ r.key = Newest(lo).key
        /\ lo # {} /\ Newest(lo).del /\ overlap => Newest(lo) \in out
        /\ lo # {} /\ ~Newest(lo).del
              /\ (compactionFilter.on => compactionFilter.decision[uk] = "keep")
             => Newest(lo) \in out

\* C18 (version retention): the outputs of a merge hold, of each user key
\* of its inputs, every version above the read mark and of the versions at
\* or below it only the newest, which is there unless it is a tombstone
\* that is lifted or a record the filter removes; no other user key loses
\* a version, whatever the output file boundaries.
C18_VersionRetention ==
  [][\A w \in Workers :
       wk[w].pc = "build" /\ wk'[w].pc = "append" /\ ~wk'[w].moveDown
         => Retained(RecsOf(wk[w].top \o wk[w].bot),
                     UNION {tbl'[id] : id \in Range(wk'[w].newTables)},
                     minReadTs', wk'[w].hasOverlap)]_vars

\* A merge wrote two output files, dropped an old version of one user key
\* and kept another user key.
C18_Witness ==
  \E w \in Workers :
     /\ Merged(w) /\ wk[w].pc = "append" /\ Len(wk[w].newTables) >= 2
     /\ \E uk, other \in UserKeys :
           /\ uk # other
           /\ \E r \in RecsOf(wk[w].top \o wk[w].bot) :
                 ParseKey(r.key) = uk /\ r \notin RecsOf(wk[w].newTables)
           /\ \E r \in RecsOf(wk[w].newTables) : ParseKey(r.key) = other

\* The manifest entries a step changes.
Changed == {id \in FileIDs : manifest'[id] # manifest[id]}

LevelsOf(id) == {l \in Levels : id \in Range(tables[l])}

\* The table is the one a move-down of worker w has put into the next
\* level and not yet taken out of this level.
MovingDown(w, id) ==
  /\ wk[w].moveDown /\ wk[w].pc = "delete"
  /\ wk[w].top[1] = id

\* C20 as stated: no table is in the lists of two levels at once.
C20_OneLevel == \A id \in FileIDs : Cardinality(LevelsOf(id)) <= 1

\* C20 amended: a table is in the lists of two levels only between the
\* replaceTables and the deleteTables of its own move-down, and then in the
\* move's two levels; at every other point, and at every point of a
\* merge, it is in at most one level.
C20_OneLevelButMoveDown ==
  \A id \in FileIDs :
     \/ Cardinality(LevelsOf(id)) <= 1
     \/ \E w \in Workers : MovingDown(w, id) /\ LevelsOf(id) = {wk[w].level, wk[w].level + 1}

\* A move-down is between its replaceTables and its deleteTables while a
\* merge is between its own.
C20_Witness ==
  \E w, v \in Workers :
     /\ MovingDown(w, wk[w].top[1]) /\ Cardinality(LevelsOf(wk[w].top[1])) = 2
     /\ Merged(v) /\ wk[v].pc = "delete"

\* The tables of level l that hold a version of user key uk.
TablesWith(l, uk) ==
  {id \in Range(tables[l]) : \E r \in tbl[id] : ParseKey(r.key) = uk}

\* C21 (no version split): at every level from 1 on, the versions of a
\* user key are all in one table.
C21_NoVersionSplit ==
  \A l \in Levels \ {0} : \A uk \in UserKeys : Cardinality(TablesWith(l, uk)) <= 1

\* Worker w's doCompact returns an error in this step.
ErrReturn(w) == wk[w].pc \in {"build", "replace", "delete"} /\ wk'[w].err

\* C22 (abandoned compaction): when doCompact returns an error its inputs
\* are in their levels as before and its outputs in none, the sizes of the
\* two levels are those of their tables, its reservations are gone, and
\* the planner can reserve the same inputs again.
C22_AbandonedNoEffect ==
  [][\A w \in Workers : ErrReturn(w) =>
        \E cd \in {wk[w]} :
           /\ Range(cd.top) \subseteq Range(tables'[cd.level])
           /\ Range(cd.bot) \subseteq Range(tables'[cd.level + 1])
           /\ \A l \in Levels : Range(cd.newTables) \cap Range(tables'[l]) = {}
           /\ tables'[cd.level] = tables[cd.level]
           /\ tables'[cd.level + 1] = tables[cd.level + 1]
           /\ totalSize'[cd.level] = totalSize[cd.level]
           /\ totalSize'[cd.level + 1] = totalSize[cd.level + 1]
           /\ cstatusDelete(cd)
           /\ compareAndAddOk(cd)']_vars

\* How many reservations of range r the compactions in flight hold at level l.
Holds(l, r) ==
  Cardinality({w \in Workers : InFlight(w) /\ wk[w].level = l /\ wk[w].thisRange = r})
  + Cardinality({w \in Workers : InFlight(w) /\ wk[w].level + 1 = l /\ wk[w].nextRange = r})

\* The ranges reserved or held at level l.
RangesAt(l) ==
  Range(cranges[l]) \cup {wk[w].thisRange : w \in {v \in Workers : InFlight(v)}}
                    \cup {wk[w].nextRange : w \in {v \in Workers : InFlight(v)}}

\* C23 (reservation release): each level's reserved ranges are exactly
\* those of the compactions in flight, once each, and its delta size is the
\* sum of their sizes; with no compaction in flight every level has no
\* reserved range and delta size zero.
C23_ReservationRelease ==
  \A l \in Levels :
     /\ \A r \in RangesAt(l) : Count(cranges[l], r) = Holds(l, r)
     /\ delSize[l] = SumOver([w \in Workers |-> wk[w].thisSize],
                             {w \in Workers : InFlight(w) /\ wk[w].level + 1 = l})
     /\ (\A w \in Workers : ~InFlight(w)) => cranges[l] = <<>> /\ delSize[l] = 0

\* One compaction has committed, another has just returned an error, and
\* none is in flight.
C23_Witness ==
  /\ finished # {}
  /\ \E w \in Workers : wk[w].err
  /\ \A w \in Workers : wk[w].pc = "idle"
  /\ \A l \in Levels : cranges[l] = <<>> /\ delSize[l] = 0

\* C24 (L0 admission bound): tryAddLevel0Table refuses, changing nothing,
\* exactly when level 0 holds NumLevelZeroTablesStall tables or more;
\* otherwise it appends the table and adds its size, and the reference it
\* takes replaces the one the caller drops as addLevel0Table returns.  No
\* step that adds a table to level 0 takes it past the bound.
C24_AdmissionBound ==
  /\ [][ad.pc = "try" /\ ad'.pc # "try" =>
          IF Len(tables[0]) >= NumLevelZeroTablesStall
          THEN ad'.pc = "stallL0" /\ UNCHANGED <<tables, totalSize, ref>>
          ELSE /\ ad'.pc = "idle"
               /\ tables' = [tables EXCEPT ![0] = Append(@, ad.id)]
               /\ totalSize' = [totalSize EXCEPT ![0] = @ + Size(ad.id)]
               /\ ref' = [ref EXCEPT ![ad.id] = @ + 1 - 1]]_vars
  /\ [][Len(tables'[0]) > Len(tables[0]) => Len(tables'[0]) <= NumLevelZeroTablesStall]_vars

\* The table was refused at the bound and its call is stalled.
C24_Witness ==
  /\ ad.pc = "stallL0" /\ Len(tables[0]) = NumLevelZeroTablesStall
  /\ ad.id \notin Range(tables[0]) /\ ref[ad.id] = 1

\* The table holds a key of the range.
Overlaps(id, kr) == \E k \in Keys(id) : kr.left <= k /\ k <= kr.right

\* fillTables returns true for worker w in this step.
FillTrue(w) == wk[w].pc = "caa" /\ wk'[w].pc = "build"

\* fillTables or fillTablesL0 returns false for worker w in this step.
FillFalse(w) ==
  /\ wk[w].pc \in {"idle", "doCompact", "caa"}
  /\ wk'[w].pc \in {"idle", "doCompact"}
  /\ wk'[w] # wk[w]

\* C25 (planner outcome): when fillTables returns true, top is one table of
\* this level, bot is exactly the tables of the next level that hold a key
\* between the first version of top's smallest user key and the last
\* version of its biggest, and thisRange and nextRange are newly reserved;
\* when fillTables or fillTablesL0 returns false, the reservations are as
\* they were.
C25_PlannerOutcome ==
  [][\A w \in Workers :
       /\ FillTrue(w) =>
             \E cd \in {wk'[w]} : \E l \in {wk'[w].level} :
                /\ l >= 1 /\ Len(cd.top) = 1 /\ cd.top[1] \in Range(tables[l])
                /\ cd.thisRange = KeyRange(KeyWithTs(ParseKey(Smallest(cd.top[1])), TsInf),
                                           KeyWithTs(ParseKey(Biggest(cd.top[1])), 0))
                /\ Range(cd.bot) = {id \in Range(tables[l + 1]) : Overlaps(id, cd.thisRange)}
                /\ Len(cd.bot) = Cardinality(Range(cd.bot))
                /\ Count(cranges'[l], cd.thisRange) = Count(cranges[l], cd.thisRange) + 1
                /\ Count(cranges'[l + 1], cd.nextRange) = Count(cranges[l + 1], cd.nextRange) + 1
                /\ Len(cranges'[l]) = Len(cranges[l]) + 1
                /\ Len(cranges'[l + 1]) = Len(cranges[l + 1]) + 1
       /\ FillFalse(w) => UNCHANGED <<cranges, delSize>>]_vars

\* fillTables has returned true with a bot that is not empty while another
\* compaction is in flight.
C25_Witness ==
  \E w, v \in Workers :
     /\ w # v /\ InFlight(v)
     /\ wk[w].pc = "build" /\ wk[w].level >= 1 /\ Len(wk[w].bot) >= 1

\* The stall loop of addLevel0Table is waiting.
StallWaiting ==
  /\ ad.pc \in {"stallL0", "stallL1"}
  /\ Len(tables[0]) >= NumLevelZeroTables \/ totalSize[1] >= maxTotalSize(1)

\* C26 (planner and stall criteria): pickCompactLevels emits level 0
\* exactly when level 0 has no reservation in flight and holds
\* NumLevelZeroTables tables or more, and a level from 1 on exactly when
\* its size is at least its maximum plus its delta size; so when the stall
\* loop is waiting and no compaction is in flight it emits level 0 or 1.
C26_PlannerStallCriteria ==
  \A s \in pickCompactLevels :
     /\ 0 \in Range(s) <=> cranges[0] = <<>> /\ Len(tables[0]) >= NumLevelZeroTables
     /\ \A l \in Levels \ {0} :
           l \in Range(s) <=> totalSize[l] >= maxTotalSize(l) + delSize[l]
     /\ StallWaiting /\ (\A w \in Workers : ~InFlight(w)) => 0 \in Range(s) \/ 1 \in Range(s)

\* The stall loop waits, no compaction is in flight and the planner emits
\* level 1.
C26_Witness ==
  /\ StallWaiting /\ \A w \in Workers : wk[w].pc = "idle"
  /\ \E s \in pickCompactLevels : 1 \in Range(s)

\* What the outputs out must hold at the key of input record r, for a
\* merge of inputs in with read mark m and hasOverlap overlap.
Fate(r, in, out, m, overlap) ==
  LET uk == ParseKey(r.key)
      at == {q \in out : q.key = r.key}
      tombstone == [key |-> r.key, del |-> TRUE]
  IN IF ParseTs(r.key) > m THEN at = {r}
     ELSE IF r # Newest(VersionsUpTo(in, uk, m)) THEN at = {}
     ELSE IF r.del THEN at = (IF overlap THEN {r} ELSE {})
     ELSE IF ~compactionFilter.on THEN at = {r}
     ELSE CASE compactionFilter.decision[uk] = "keep" -> at = {r}
            [] compactionFilter.decision[uk] = "drop" -> at = {}
            [] compactionFilter.decision[uk] = "tomb" ->
                  at = (IF overlap THEN {tombstone} ELSE {})

\* C27 (filter decisions): a merge passes every record above the read mark
\* unchanged; of the records at or below it, it treats only the newest of
\* each user key: a tombstone stays if hasOverlap and goes otherwise, and
\* any other record gets the filter's decision, Keep leaving it as it is,
\* Drop removing it, MarkTombstone leaving a delete marker at its key if
\* hasOverlap and nothing otherwise.
C27_FilterDecisions ==
  [][\A w \in Workers :
       wk[w].pc = "build" /\ wk'[w].pc = "append" /\ ~wk'[w].moveDown =>
         \E in \in {RecsOf(wk[w].top \o wk[w].bot)} :
         \E out \in {UNION {tbl'[id] : id \in Range(wk'[w].newTables)}} :
            /\ \A r \in in : Fate(r, in, out, minReadTs', wk'[w].hasOverlap)
            /\ {q.key : q \in out} \subseteq {r.key : r \in in}]_vars

\* A merge with a filter and hasOverlap has turned a record into a delete
\* marker and has kept a record of another user key.
C27_Witness ==
  \E w \in Workers :
     /\ Merged(w) /\ wk[w].pc = "append" /\ compactionFilter.on /\ wk[w].hasOverlap
     /\ \E r \in RecsOf(wk[w].top \o wk[w].bot) :
           /\ ~r.del /\ compactionFilter.decision[ParseKey(r.key)] = "tomb"
           /\ [key |-> r.key, del |-> TRUE] \in RecsOf(wk[w].newTables)
     /\ \E r \in RecsOf(wk[w].newTables) :
           ~r.del /\ compactionFilter.decision[ParseKey(r.key)] = "keep"

\* A read of level l's list is under way: inside fillTables, which holds the
\* level's read lock, or inside getTableInfo's loop over l.tables.
ReadUnderWay(l) == ReadLocked(l) \/ (info.pc = "range" /\ info.level = l)

\* C28: every read of a level's tables or totalSize is made under that
\* level's lock, so that no replaceTables, deleteTables or tryAddLevel0Table
\* changes the level while a read of it is under way.
C28_LockDiscipline ==
  [][\A l \in Levels : ReadUnderWay(l) => tables'[l] = tables[l] /\ totalSize'[l] = totalSize[l]]_vars

\* the thread inside addLevel0Table, next to the workers 1..NumCompactors
Flusher == 0

Threads == Workers \cup {Flusher}

\* a holds no lock b needs, but b holds or bars the lock a has called for
WaitsFor(a, b) ==
  /\ a # b
  /\ \/ /\ a \in Workers /\ b \in Workers
        /\ wk[a].locking
        /\ wk[b].pc = "caa"
        /\ \/ wk[a].pc = "replace" /\ wk[a].level + 1 \in {wk[b].level, wk[b].level + 1}
           \/ wk[a].pc = "delete" /\ wk[a].level \in {wk[b].level, wk[b].level + 1}
     \/ /\ a = Flusher /\ b \in Workers
        /\ CsRLocked /\ ad.logLevel < MaxLevels
        /\ wk[b].locking
        /\ \/ wk[b].pc = "replace" /\ wk[b].level + 1 = ad.logLevel
           \/ wk[b].pc = "delete" /\ wk[b].level = ad.logLevel
     \/ /\ a \in Workers /\ b = Flusher
        /\ wk[a].pc = "caa"
        /\ CsRLocked

\* C29: no set of threads in which every one waits for a lock that another
\* one of the set holds, or bars as a waiting writer: planners, the stalled
\* addLevel0Table and installers never wait for each other in a cycle.
C29_NoCyclicWait ==
  ~ \E S \in SUBSET Threads : S # {} /\ \A a \in S : \E b \in S : WaitsFor(a, b)

\* C30: every priority a worker passes to doCompact has level + 1 < MaxLevels:
\* the assertion at the start of doCompact never fails, and a compaction under
\* way has a next level.
C30_PriorityInRange ==
  /\ crashed # "doCompact"
  /\ \A w \in Workers : InFlight(w) => wk[w].level + 1 < MaxLevels

\* The keys a read asks for: a user key at a timestamp up to the last commit.
ReadKeys == {KeyWithTs(uk, ts) : uk \in UserKeys, ts \in 1..commitTs}

\* The pairs handed to multiGet: not yet found, or found earlier with some version.
PairsIn ==
  UNION {[1..n -> {Pair(k, FALSE, 0) : k \in ReadKeys}
                  \cup {Pair(k, TRUE, v) : k \in ReadKeys, v \in 1..MaxTs}] : n \in 1..MaxPairs}

\* C31: on a quiescent state multiGet leaves every pair as get(pair.key)
\* would: a pair not yet found becomes found iff get returns a value, with
\* that value's version, and a pair already found is left as it was.
C31_MultiGetAgreesWithGet ==
  Quiescent =>
    \A pairs \in PairsIn : \E out \in {levelsMultiGet(pairs)} :
      \A i \in 1..Len(pairs) :
        IF pairs[i].found THEN out[i] = pairs[i]
        ELSE /\ out[i].found = (levelsGet(pairs[i].key) # 0)
             /\ out[i].val = levelsGet(pairs[i].key)

====
